---- MODULE Spec2Model ----
(***************************************************************************)
(* StorySnapper content analysis engine (src/StorySnapper/analysis.py) and   *)
(* the routes that store its results (src/StorySnapper/routes.py).          *)
(*                                                                          *)
(* A text is a sequence of atoms: a word, the period "." or one blank " ".  *)
(* Numbers are scaled integers: compound scores in millionths, pos/neg/neu  *)
(* in thousandths, statistics in hundredths, valences in tenths.            *)
(***************************************************************************)
EXTENDS Integers, Sequences, FiniteSets, TLC

VARIABLES plt, thr, db, req

vars == <<plt, thr, db, req>>

(***************************************************************************)
(* Bounds of the model.                                                     *)
(***************************************************************************)
MaxWords == 2
MaxSentences == 4
VocabSize == 11
MaxRepeat == 2
MaxFigs == 2
MaxRecords == 3

(***************************************************************************)
(* Texts.                                                                   *)
(***************************************************************************)
Space == " "
Period == "."

\* content is None (null) or a str
NoneContent == [null |-> TRUE, text |-> <<>>]
Str(text) == [null |-> FALSE, text |-> text]

\* title is None or a str; a str title is modelled by its name
NoneTitle == "<None>"
EmptyTitle == ""
\* a title of blanks only is a non-empty str
BlankTitle == " "

Max(a, b) == IF a >= b THEN a ELSE b
Abs(a) == IF a >= 0 THEN a ELSE -a

\* round(n / d) for d > 0, ties to the even neighbour (Python's round on an
\* exactly representable tie)
RoundHalfEven(n, d) ==
    LET q == n \div d
        r == n - q * d
    IN  IF 2 * r < d THEN q
        ELSE IF 2 * r > d THEN q + 1
        ELSE IF q % 2 = 0 THEN q ELSE q + 1

RECURSIVE SumSeq(_)
SumSeq(s) == IF s = <<>> THEN 0 ELSE Head(s) + SumSeq(Tail(s))

\* len(atom) in characters
CharLen(a) ==
    CASE a \in {Space, Period} -> 1
      [] a \in {"42"} -> 2
      [] a \in {"the", "The", "bad", "cat", "dog"} -> 3
      [] OTHER -> 4

\* str.lower() on one atom
LowerAtom(a) ==
    CASE a = "Good" -> "good"
      [] a = "The" -> "the"
      [] OTHER -> a

Lower(text) == [i \in 1..Len(text) |-> LowerAtom(text[i])]

\* str.isalpha() on one token
IsAlpha(a) == a \notin {Space, Period, "42"}

\* content.strip() == ""
IsBlank(text) == \A i \in 1..Len(text) : text[i] = Space

\* str.strip()
RECURSIVE LStrip(_)
LStrip(s) == IF s # <<>> /\ Head(s) = Space THEN LStrip(Tail(s)) ELSE s

RECURSIVE RStrip(_)
RStrip(s) ==
    IF s # <<>> /\ s[Len(s)] = Space THEN RStrip(SubSeq(s, 1, Len(s) - 1)) ELSE s

Strip(s) == RStrip(LStrip(s))

\* len(content.split()): the number of maximal runs of non-blank atoms
SplitCount(text) ==
    Cardinality({i \in 1..Len(text) :
        text[i] # Space /\ (i = 1 \/ text[i - 1] = Space)})

\* len(content)
CharCount(text) == SumSeq([i \in 1..Len(text) |-> CharLen(text[i])])

(***************************************************************************)
(* Tokenizers (nltk.tokenize).                                              *)
(***************************************************************************)
\* a sentence ends at a period that is followed by a blank or by the end of
\* the text; sentences are returned without surrounding blanks, in order
IsBreak(text, i) ==
    /\ text[i] = Period
    /\ (i = Len(text) \/ text[i + 1] = Space)

RECURSIVE SentFrom(_, _, _)
SentFrom(text, start, i) ==
    IF i > Len(text)
    THEN IF Strip(SubSeq(text, start, Len(text))) = <<>>
         THEN <<>>
         ELSE <<Strip(SubSeq(text, start, Len(text)))>>
    ELSE IF IsBreak(text, i)
         THEN <<Strip(SubSeq(text, start, i))>> \o SentFrom(text, i + 1, i + 1)
         ELSE SentFrom(text, start, i + 1)

sent_tokenize(text) == SentFrom(text, 1, 1)

\* word tokens and punctuation tokens, blanks dropped
word_tokenize(text) == SelectSeq(text, LAMBDA a : a # Space)

(***************************************************************************)
(* Readability (textstat): the published Flesch formulas on the counts of   *)
(* words, sentences and syllables, in hundredths.                           *)
(***************************************************************************)
Syllables(a) == IF a \in {Space, Period} THEN 0 ELSE 1

SyllableCount(text) == SumSeq([i \in 1..Len(text) |-> Syllables(text[i])])

\* the formulas divide by the word and sentence counts
ReadabilityDefined(text) ==
    SplitCount(text) > 0 /\ Len(sent_tokenize(text)) > 0

\* the texts of up to 16 words, with at most one syllable a word, whose exact
\* reading ease ends in 5 thousandths and whose double lies below that tie, as
\* <<words, sentences, syllables>>; on every other tie the double lies above
EaseTiesBelow == {
    <<2, 1, 1>>, <<4, 1, 1>>, <<4, 2, 2>>, <<6, 1, 3>>, <<6, 3, 3>>, <<8, 1, 2>>,
    <<8, 2, 2>>, <<8, 4, 4>>, <<10, 1, 1>>, <<10, 1, 4>>, <<10, 1, 5>>,
    <<10, 1, 8>>, <<10, 5, 1>>, <<10, 5, 5>>, <<10, 5, 8>>, <<12, 1, 1>>,
    <<12, 1, 3>>, <<12, 1, 8>>, <<12, 2, 1>>, <<12, 2, 3>>, <<12, 2, 6>>,
    <<12, 3, 1>>, <<12, 3, 3>>, <<12, 6, 1>>, <<12, 6, 6>>, <<12, 7, 0>>,
    <<12, 7, 1>>, <<12, 7, 3>>, <<12, 7, 5>>, <<12, 7, 8>>, <<12, 7, 10>>,
    <<14, 1, 0>>, <<14, 1, 7>>, <<14, 7, 7>>, <<16, 1, 0>>, <<16, 1, 4>>,
    <<16, 2, 4>>, <<16, 4, 4>>, <<16, 8, 8>> }

\* the same for the grade level
GradeTiesBelow == {
    <<5, 2, 0>>, <<5, 2, 3>>, <<6, 4, 3>>, <<8, 3, 5>>, <<8, 4, 1>>, <<8, 4, 5>>,
    <<8, 6, 5>>, <<8, 8, 5>>, <<10, 4, 0>>, <<10, 4, 6>>, <<10, 4, 7>>,
    <<11, 2, 0>>, <<11, 6, 0>>, <<12, 8, 6>>, <<15, 6, 0>>, <<15, 6, 9>>,
    <<15, 10, 6>>, <<16, 1, 2>>, <<16, 3, 2>>, <<16, 6, 10>>, <<16, 8, 2>>,
    <<16, 8, 10>>, <<16, 12, 10>>, <<16, 16, 10>> }

\* round(x, 2) of the double x computed for n / d hundredths: the nearest
\* hundredth; an exact tie is no double, and x lies below or above it
Round2(n, d, below) ==
    LET q == n \div d
        r == n - q * d
    IN  IF 2 * r < d THEN q
        ELSE IF 2 * r > d THEN q + 1
        ELSE IF below THEN q ELSE q + 1

\* round(206.835 - 1.015 * (W / S) - 84.6 * (Y / W), 2)
flesch_reading_ease(text) ==
    LET W == SplitCount(text)
        S == Len(sent_tokenize(text))
        Y == SyllableCount(text)
    IN  Round2(41367 * S * W - 203 * W * W - 16920 * Y * S, 2 * S * W,
               <<W, S, Y>> \in EaseTiesBelow)

\* round(0.39 * (W / S) + 11.8 * (Y / W) - 15.59, 2)
flesch_kincaid_grade(text) ==
    LET W == SplitCount(text)
        S == Len(sent_tokenize(text))
        Y == SyllableCount(text)
    IN  Round2(39 * W * W + 1180 * Y * S - 1559 * S * W, S * W,
               <<W, S, Y>> \in GradeTiesBelow)

(***************************************************************************)
(* Sentiment scorer (nltk.sentiment.SentimentIntensityAnalyzer).            *)
(***************************************************************************)
\* lexicon valence of a token, in tenths
Valence(a) ==
    CASE LowerAtom(a) = "good" -> 19
      [] LowerAtom(a) = "bad" -> -25
      [] OTHER -> 0

\* the scorer's normalisation s / sqrt(s * s + 15), rounded to 4 decimals, for
\* the valence sums (tenths) of up to six lexicon words; in millionths
Normalize(s10) ==
    CASE s10 = -150 -> -968200 [] s10 = -125 -> -955200 [] s10 = -106 -> -939300
      [] s10 = -100 -> -932500 [] s10 = -81 -> -902200 [] s10 = -75 -> -888500
      [] s10 = -62 -> -848100 [] s10 = -56 -> -822500 [] s10 = -50 -> -790600
      [] s10 = -37 -> -690800 [] s10 = -31 -> -624900 [] s10 = -25 -> -542300
      [] s10 = -18 -> -421500 [] s10 = -12 -> -296000 [] s10 = -6 -> -153100
      [] s10 = 0 -> 0 [] s10 = 7 -> 177900 [] s10 = 13 -> 318200
      [] s10 = 19 -> 440400 [] s10 = 26 -> 557400 [] s10 = 32 -> 636900
      [] s10 = 38 -> 700300 [] s10 = 51 -> 796400 [] s10 = 57 -> 827100
      [] s10 = 70 -> 875000 [] s10 = 76 -> 891000 [] s10 = 95 -> 926000
      [] s10 = 114 -> 946800
      [] OTHER -> IF s10 > 0 THEN 1000000 ELSE -1000000

\* the tokens the scorer rates: the words, punctuation stripped
ScoredWords(text) == SelectSeq(text, LAMBDA a : a \notin {Space, Period})

polarity_scores(text) ==
    LET ws == ScoredWords(text)
        v == [i \in 1..Len(ws) |-> Valence(ws[i])]
        pos10 == SumSeq([i \in 1..Len(ws) |-> IF v[i] > 0 THEN v[i] + 10 ELSE 0])
        neg10 == SumSeq([i \in 1..Len(ws) |-> IF v[i] < 0 THEN 10 - v[i] ELSE 0])
        neu10 == SumSeq([i \in 1..Len(ws) |-> IF v[i] = 0 THEN 10 ELSE 0])
        total == pos10 + neg10 + neu10
    IN  IF total = 0
        THEN [neg |-> 0, neu |-> 0, pos |-> 0, compound |-> 0]
        ELSE [neg |-> RoundHalfEven(1000 * neg10, total),
              neu |-> RoundHalfEven(1000 * neu10, total),
              pos |-> RoundHalfEven(1000 * pos10, total),
              compound |-> Normalize(SumSeq(v))]

\* compound_score >= 0.05 / <= -0.05, in millionths
PosThreshold == 50000
NegThreshold == -50000

\* most_common(10) and top_words[:8]
TopN == 10
ChartTopN == 8
\* len(sentences) <= 3
SummaryMaxSentences == 3

\* mutant: strict comparisons
_get_sentiment_label_Strict(compound_score) ==
    IF compound_score > PosThreshold THEN "Positive"
    ELSE IF compound_score < NegThreshold THEN "Negative"
    ELSE "Neutral"

_get_sentiment_label(compound_score) ==
    IF compound_score >= PosThreshold THEN "Positive"
    ELSE IF compound_score <= NegThreshold THEN "Negative"
    ELSE "Neutral"

\* the 4-decimal ties (ten-thousandths, absolute value) whose double lies
\* below the tie, so that round(x, 3) goes toward zero
TiesTowardZero == {
      45, 55, 65, 75, 95, 115, 135, 155, 185, 195, 215, 225, 255, 265,
      295, 305, 355, 365, 375, 385, 435, 445, 455, 465, 515, 525, 535, 545,
      595, 605, 615, 625, 705, 715, 725, 735, 745, 755, 765, 775, 865, 875,
      885, 895, 905, 915, 925, 935, 1025, 1035, 1045, 1055, 1065, 1075, 1085, 1175,
      1185, 1195, 1205, 1215, 1225, 1235, 1245, 1415, 1425, 1435, 1445, 1455, 1465, 1475,
      1485, 1495, 1505, 1515, 1525, 1535, 1545, 1555, 1725, 1735, 1745, 1755, 1765, 1775,
      1785, 1795, 1805, 1815, 1825, 1835, 1845, 1855, 1865, 2035, 2045, 2055, 2065, 2075,
      2085, 2095, 2105, 2115, 2125, 2135, 2145, 2155, 2165, 2175, 2185, 2345, 2355, 2365,
      2375, 2385, 2395, 2405, 2415, 2425, 2435, 2445, 2455, 2465, 2475, 2485, 2495, 2815,
      2825, 2835, 2845, 2855, 2865, 2875, 2885, 2895, 2905, 2915, 2925, 2935, 2945, 2955,
      2965, 2975, 2985, 2995, 3005, 3015, 3025, 3035, 3045, 3055, 3065, 3075, 3085, 3095,
      3105, 3115, 3125, 3445, 3455, 3465, 3475, 3485, 3495, 3505, 3515, 3525, 3535, 3545,
      3555, 3565, 3575, 3585, 3595, 3605, 3615, 3625, 3635, 3645, 3655, 3665, 3675, 3685,
      3695, 3705, 3715, 3725, 3735, 3745, 4065, 4075, 4085, 4095, 4105, 4115, 4125, 4135,
      4145, 4155, 4165, 4175, 4185, 4195, 4205, 4215, 4225, 4235, 4245, 4255, 4265, 4275,
      4285, 4295, 4305, 4315, 4325, 4335, 4345, 4355, 4365, 4695, 4705, 4715, 4725, 4735,
      4745, 4755, 4765, 4775, 4785, 4795, 4805, 4815, 4825, 4835, 4845, 4855, 4865, 4875,
      4885, 4895, 4905, 4915, 4925, 4935, 4945, 4955, 4965, 4975, 4985, 4995, 5005, 5015,
      5025, 5035, 5045, 5055, 5065, 5075, 5085, 5095, 5105, 5115, 5125, 5135, 5145, 5155,
      5165, 5175, 5185, 5195, 5205, 5215, 5225, 5235, 5245, 5255, 5265, 5275, 5285, 5295,
      5305, 5315, 5325, 5335, 5345, 5355, 5365, 5375, 5385, 5395, 5405, 5415, 5425, 5435,
      5445, 5455, 5465, 5475, 5485, 5495, 5505, 5515, 5525, 5535, 5545, 5555, 5565, 5575,
      5585, 5595, 5605, 5615, 5625, 6255, 6265, 6275, 6285, 6295, 6305, 6315, 6325, 6335,
      6345, 6355, 6365, 6375, 6385, 6395, 6405, 6415, 6425, 6435, 6445, 6455, 6465, 6475,
      6485, 6495, 6505, 6515, 6525, 6535, 6545, 6555, 6565, 6575, 6585, 6595, 6605, 6615,
      6625, 6635, 6645, 6655, 6665, 6675, 6685, 6695, 6705, 6715, 6725, 6735, 6745, 6755,
      6765, 6775, 6785, 6795, 6805, 6815, 6825, 6835, 6845, 6855, 6865, 7505, 7515, 7525,
      7535, 7545, 7555, 7565, 7575, 7585, 7595, 7605, 7615, 7625, 7635, 7645, 7655, 7665,
      7675, 7685, 7695, 7705, 7715, 7725, 7735, 7745, 7755, 7765, 7775, 7785, 7795, 7805,
      7815, 7825, 7835, 7845, 7855, 7865, 7875, 7885, 7895, 7905, 7915, 7925, 7935, 7945,
      7955, 7965, 7975, 7985, 7995, 8005, 8015, 8025, 8035, 8045, 8055, 8065, 8075, 8085,
      8095, 8105, 8115, 8125, 8755, 8765, 8775, 8785, 8795, 8805, 8815, 8825, 8835, 8845,
      8855, 8865, 8875, 8885, 8895, 8905, 8915, 8925, 8935, 8945, 8955, 8965, 8975, 8985,
      8995, 9005, 9015, 9025, 9035, 9045, 9055, 9065, 9075, 9085, 9095, 9105, 9115, 9125,
      9135, 9145, 9155, 9165, 9175, 9185, 9195, 9205, 9215, 9225, 9235, 9245, 9255, 9265,
      9275, 9285, 9295, 9305, 9315, 9325, 9335, 9345, 9355, 9365 }

\* round(x, 3) of a 4-decimal score given in millionths; in millionths
Round3(c) ==
    LET k == Abs(c) \div 100
        q == k \div 10
        r == k % 10
        up == r > 5 \/ (r = 5 /\ k \notin TiesTowardZero)
        m == IF up THEN q + 1 ELSE q
    IN  IF c >= 0 THEN 1000 * m ELSE -(1000 * m)

(***************************************************************************)
(* Keyword extractor: collections.Counter over the filtered tokens.         *)
(***************************************************************************)
\* nltk's English stop words that occur in the texts of the model
stop_words == {"the"}

\* mutant: the stop words are kept
words_filtered_KeepStop(words) == SelectSeq(words, LAMBDA w : IsAlpha(w))

\* [word for word in words if word.isalpha() and word not in self.stop_words]
words_filtered(words) ==
    SelectSeq(words, LAMBDA w : IsAlpha(w) /\ w \notin stop_words)

\* a Counter is the sequence of <<word, count>> in order of first insertion
CounterAdd(cnt, w) ==
    IF \E i \in 1..Len(cnt) : cnt[i][1] = w
    THEN [i \in 1..Len(cnt) |->
            IF cnt[i][1] = w THEN <<w, cnt[i][2] + 1>> ELSE cnt[i]]
    ELSE Append(cnt, <<w, 1>>)

RECURSIVE CounterFrom(_, _)
CounterFrom(cnt, tokens) ==
    IF tokens = <<>> THEN cnt
    ELSE CounterFrom(CounterAdd(cnt, Head(tokens)), Tail(tokens))

Counter(tokens) == CounterFrom(<<>>, tokens)

RemoveAt(s, i) == SubSeq(s, 1, i - 1) \o SubSeq(s, i + 1, Len(s))

\* the first entry with the largest count
RECURSIVE FirstLargestFrom(_, _, _)
FirstLargestFrom(cnt, best, i) ==
    IF i > Len(cnt) THEN best
    ELSE FirstLargestFrom(cnt, IF cnt[i][2] > cnt[best][2] THEN i ELSE best, i + 1)

\* mutant: among equal counts the last inserted wins
LastLargest(cnt) ==
    CHOOSE i \in 1..Len(cnt) :
        /\ \A j \in 1..Len(cnt) : cnt[j][2] <= cnt[i][2]
        /\ \A j \in (i + 1)..Len(cnt) : cnt[j][2] < cnt[i][2]

FirstLargest(cnt) == FirstLargestFrom(cnt, 1, 2)

\* Counter.most_common(n): the n largest by count, equal counts in insertion
\* order (heapq.nlargest is sorted(..., reverse=True)[:n], which is stable)
RECURSIVE most_common(_, _)
most_common(cnt, n) ==
    IF n = 0 \/ cnt = <<>> THEN <<>>
    ELSE LET i == FirstLargest(cnt)
         IN  <<cnt[i]>> \o most_common(RemoveAt(cnt, i), n - 1)

\* lines 76-79
TopWords(text) == most_common(Counter(words_filtered(word_tokenize(Lower(text)))), TopN)

\* [word for word, count in top_words]
Keywords(top_words) == [i \in 1..Len(top_words) |-> top_words[i][1]]

(***************************************************************************)
(* Summarizer.                                                              *)
(***************************************************************************)
\* ' '.join(parts)
RECURSIVE JoinSpace(_)
JoinSpace(parts) ==
    IF parts = <<>> THEN <<>>
    ELSE IF Len(parts) = 1 THEN Head(parts)
    ELSE Head(parts) \o <<Space>> \o JoinSpace(Tail(parts))

\* mutant: the middle sentence is taken at (n - 1) // 2
_generate_summary_LowMiddle(text, sentences) ==
    LET n == Len(sentences)
    IN  IF n <= SummaryMaxSentences THEN text
        ELSE JoinSpace(<<sentences[1], sentences[((n - 1) \div 2) + 1], sentences[n]>>)

_generate_summary(text, sentences) ==
    LET n == Len(sentences)
    IN  IF n <= SummaryMaxSentences THEN text
        ELSE JoinSpace(<<sentences[1]>>
                \o (IF n > 2 THEN <<sentences[(n \div 2) + 1]>> ELSE <<>>)
                \o (IF n > 1 THEN <<sentences[n]>> ELSE <<>>))

(***************************************************************************)
(* matplotlib.pyplot: the process-wide style and the figure registry.  The  *)
(* registry lists the open figures, the current figure last.                *)
(***************************************************************************)
NoFig == 0

InitPlt == [style |-> "default", figs |-> <<>>]

\* plt.style.use('dark_background')
style_use(g) == [g EXCEPT !.style = "dark_background"]

FigNums(g) == {g.figs[i].num : i \in 1..Len(g.figs)}

NextNum(g) ==
    IF g.figs = <<>> THEN 1
    ELSE 1 + (CHOOSE n \in FigNums(g) : \A m \in FigNums(g) : m <= n)

\* plt.subplots(): a new figure, made the current one
subplots(g) ==
    [g EXCEPT !.figs = Append(@, [num |-> NextNum(g), tight |-> FALSE,
                                  style |-> g.style])]

\* mutant: the oldest open figure is laid out instead of the current one
tight_layout_First(g) ==
    IF g.figs = <<>>
    THEN [g EXCEPT !.figs = <<[num |-> 1, tight |-> TRUE, style |-> g.style]>>]
    ELSE [g EXCEPT !.figs[1].tight = TRUE]

\* plt.tight_layout(): lays out the current figure (gcf(), which makes one
\* when none is open)
tight_layout(g) ==
    IF g.figs = <<>>
    THEN [g EXCEPT !.figs = <<[num |-> 1, tight |-> TRUE, style |-> g.style]>>]
    ELSE [g EXCEPT !.figs[Len(g.figs)].tight = TRUE]

FigIndex(g, num) == CHOOSE i \in 1..Len(g.figs) : g.figs[i].num = num

IsOpen(g, num) == \E i \in 1..Len(g.figs) : g.figs[i].num = num

\* plt.close(fig)
close(g, num) ==
    IF IsOpen(g, num) THEN [g EXCEPT !.figs = RemoveAt(@, FigIndex(g, num))]
    ELSE g

\* fig.savefig + base64: the image is determined by what was drawn, the
\* figure's layout and the style it was created under
_fig_to_base64(g, num, kind, data) ==
    [kind |-> kind, data |-> data,
     tight |-> g.figs[FigIndex(g, num)].tight,
     style |-> g.figs[FigIndex(g, num)].style]

\* the bars of the two charts
SentimentData(scores) ==
    <<<<"Positive", scores.pos>>, <<"Negative", scores.neg>>,
      <<"Neutral", scores.neu>>>>

\* mutant: the chart is drawn from the whole top-10 list
WordsData_All(top_words) == top_words

\* zip(*top_words[:8])
WordsData(top_words) == SubSeq(top_words, 1, IF Len(top_words) < ChartTopN
                                             THEN Len(top_words) ELSE ChartTopN)

(***************************************************************************)
(* analyze_content: one call is a frame; StepFrame runs it to its next      *)
(* access of pyplot's state.                                                *)
(***************************************************************************)
\* the points where a library call may raise
FaultPoints ==
    {"sent_tokenize", "flesch_reading_ease", "flesch_kincaid_grade",
     "polarity_scores", "word_tokenize", "style_use", "sentiment_chart",
     "words_chart"}

ChartFaults == {"sentiment_chart", "words_chart"}

NoResult == [success |-> FALSE, error |-> <<"<no result>", "">>]
NoException == [type |-> "<none>", msg |-> ""]
NoCharts == <<>>

\* the local variables of analyze_content, before they are assigned
NoLocals ==
    [word_count |-> 0, char_count |-> 0, sentences |-> <<>>,
     readability_score |-> 0, grade_level |-> 0,
     sentiment_scores |-> [neg |-> 0, neu |-> 0, pos |-> 0, compound |-> 0],
     sentiment_label |-> "", top_words |-> <<>>, summary |-> <<>>]

\* self.sia (line 43): the lexicon scorer of the model's words, or a scorer
\* that rates the content as given, standing for a text outside that lexicon
LexiconScorer ==
    [fixed |-> FALSE, scores |-> [neg |-> 0, neu |-> 0, pos |-> 0, compound |-> 0]]

RatingScorer(scores) == [fixed |-> TRUE, scores |-> scores]

\* self.sia.polarity_scores(content)
Scores(sia, text) == IF sia.fixed THEN sia.scores ELSE polarity_scores(text)

IdleFrame ==
    [pc |-> "idle", op |-> "<none>", content |-> NoneContent,
     title |-> NoneTitle, faults |-> {}, ran |-> {}, loc |-> NoLocals,
     sia |-> LexiconScorer,
     fig |-> NoFig, charts |-> NoCharts, result |-> NoResult,
     raised |-> NoException, compound |-> 0, label |-> ""]

NewFrame(content, title, faults) ==
    [IdleFrame EXCEPT !.pc = "entry", !.op = "analyze_content",
                      !.content = content, !.title = title, !.faults = faults]

\* mutant: the whitespace test is missing
IsMissing_NoStrip(content) == content.null \/ content.text = <<>>

\* not content or content.strip() == ""
IsMissing(content) == content.null \/ IsBlank(content.text)

\* mutant: only the ValueError of the empty-content test is caught
OuterCatches_ValueErrorOnly(exc) == exc.type = "ValueError"

\* except Exception as e (line 115)
OuterCatches(exc) == exc.type \in {"ValueError", "LookupError", "RuntimeError", "OSError"}

\* lines 115-120, or the exception leaves analyze_content
HandleException(fr, exc) ==
    IF OuterCatches(exc)
    THEN [fr EXCEPT !.pc = "done", !.loc = NoLocals, !.fig = NoFig,
                    !.result = [success |-> FALSE,
                                error |-> <<"Analysis failed: ", exc.msg>>]]
    ELSE [fr EXCEPT !.pc = "done", !.loc = NoLocals, !.fig = NoFig, !.raised = exc]

Raised(type, point) == [type |-> type, msg |-> point]

\* mutant: the except clause resets only the score that failed
Readability_KeepEase(text, faults) ==
    IF "flesch_reading_ease" \in faults \/ ~ReadabilityDefined(text)
    THEN [readability_score |-> 0, grade_level |-> 0]
    ELSE IF "flesch_kincaid_grade" \in faults
    THEN [readability_score |-> flesch_reading_ease(text), grade_level |-> 0]
    ELSE [readability_score |-> flesch_reading_ease(text),
          grade_level |-> flesch_kincaid_grade(text)]

\* lines 64-69: the two scores, or 0 and 0 when either formula raises
Readability(text, faults) ==
    IF \/ "flesch_reading_ease" \in faults
       \/ "flesch_kincaid_grade" \in faults
       \/ ~ReadabilityDefined(text)
    THEN [readability_score |-> 0, grade_level |-> 0]
    ELSE [readability_score |-> flesch_reading_ease(text),
          grade_level |-> flesch_kincaid_grade(text)]

\* mutant: the default is applied to a missing title only (title is None)
TitleOf_NoneOnly(title) == IF title = NoneTitle THEN "Untitled" ELSE title

\* title or 'Untitled'
TitleOf(title) == IF title \in {NoneTitle, EmptyTitle} THEN "Untitled" ELSE title

\* lines 90-113
BuildResult(fr) ==
    LET l == fr.loc
        sentence_count == Len(l.sentences)
    IN  [success |-> TRUE,
         title |-> TitleOf(fr.title),
         statistics |->
            [word_count |-> l.word_count,
             character_count |-> l.char_count,
             sentence_count |-> sentence_count,
             avg_sentence_length |->
                IF sentence_count > 0
                THEN RoundHalfEven(100 * l.word_count, sentence_count) ELSE 0,
             readability_score |-> l.readability_score,
             grade_level |-> l.grade_level],
         sentiment |->
            [compound |-> Round3(l.sentiment_scores.compound),
             positive |-> l.sentiment_scores.pos,
             negative |-> l.sentiment_scores.neg,
             neutral |-> l.sentiment_scores.neu,
             label |-> l.sentiment_label],
         top_words |-> l.top_words,
         summary |-> l.summary,
         charts |-> fr.charts,
         keywords |-> Keywords(l.top_words),
         sentiment_confidence |->
            Max(l.sentiment_scores.pos,
                Max(l.sentiment_scores.neg, l.sentiment_scores.neu))]

\* lines 55-82: the local variables when no library call aborts the analysis
Locals(text, faults, sia) ==
    LET sentences == sent_tokenize(text)
        rd == Readability(text, faults)
        sentiment_scores == Scores(sia, text)
    IN  [word_count |-> SplitCount(text),
         char_count |-> CharCount(text),
         sentences |-> sentences,
         readability_score |-> rd.readability_score,
         grade_level |-> rd.grade_level,
         sentiment_scores |-> sentiment_scores,
         sentiment_label |-> _get_sentiment_label(sentiment_scores.compound),
         top_words |-> TopWords(text),
         summary |-> _generate_summary(text, sentences)]

\* lines 50-82: everything before _create_visualizations
EntryStep(fr) ==
    LET f == fr.faults
        readRan == IF "flesch_reading_ease" \in f THEN {"flesch_reading_ease"}
                   ELSE {"flesch_reading_ease", "flesch_kincaid_grade"}
    IN  IF IsMissing(fr.content)
        THEN HandleException(fr, Raised("ValueError", "No content provided for analysis"))
        ELSE IF "sent_tokenize" \in f
        THEN HandleException([fr EXCEPT !.ran = {"sent_tokenize"}],
                             Raised("LookupError", "sent_tokenize"))
        ELSE IF "polarity_scores" \in f
        THEN HandleException(
                [fr EXCEPT !.ran = {"sent_tokenize", "polarity_scores"} \cup readRan],
                Raised("RuntimeError", "polarity_scores"))
        ELSE IF "word_tokenize" \in f
        THEN HandleException(
                [fr EXCEPT !.ran = {"sent_tokenize", "polarity_scores",
                                    "word_tokenize"} \cup readRan],
                Raised("LookupError", "word_tokenize"))
        ELSE [fr EXCEPT !.pc = "style",
                        !.loc = Locals(fr.content.text, f, fr.sia),
                        !.ran = {"sent_tokenize", "polarity_scores", "word_tokenize",
                                 "most_common", "_generate_summary"} \cup readRan]

\* mutant: one try block around both charts
AfterSentimentFailure_Skip == "return"

\* lines 188-191: after the except of the sentiment chart, the words chart's try
AfterSentimentFailure == "w_subplots"

\* one step of a call on pyplot's state g: <<frame, g>> afterwards
StepFrame(fr, g) ==
    LET top_words == fr.loc.top_words
    IN
    CASE fr.pc = "entry" -> <<EntryStep(fr), g>>
      \* line 160, outside both try blocks
      [] fr.pc = "style" ->
            IF "style_use" \in fr.faults
            THEN <<HandleException([fr EXCEPT !.ran = @ \cup {"style_use"}],
                                   Raised("OSError", "style_use")), g>>
            ELSE <<[fr EXCEPT !.pc = "s_subplots", !.ran = @ \cup {"style_use"}],
                   style_use(g)>>
      \* lines 162-189
      [] fr.pc = "s_subplots" ->
            <<[fr EXCEPT !.pc = "s_layout", !.fig = NextNum(g),
                         !.ran = @ \cup {"sentiment_chart"}], subplots(g)>>
      [] fr.pc = "s_layout" -> <<[fr EXCEPT !.pc = "s_save"], tight_layout(g)>>
      [] fr.pc = "s_save" ->
            IF "sentiment_chart" \in fr.faults
            THEN <<[fr EXCEPT !.pc = AfterSentimentFailure, !.fig = NoFig], g>>
            ELSE <<[fr EXCEPT !.pc = "s_close",
                      !.charts = ("sentiment" :>
                          _fig_to_base64(g, fr.fig, "sentiment",
                                         SentimentData(fr.loc.sentiment_scores)))], g>>
      [] fr.pc = "s_close" ->
            <<[fr EXCEPT !.pc = "w_subplots", !.fig = NoFig], close(g, fr.fig)>>
      \* lines 191-214
      [] fr.pc = "w_subplots" ->
            IF Len(top_words) > 0
            THEN <<[fr EXCEPT !.pc = "w_layout", !.fig = NextNum(g),
                              !.ran = @ \cup {"words_chart"}], subplots(g)>>
            ELSE <<[fr EXCEPT !.pc = "return"], g>>
      [] fr.pc = "w_layout" -> <<[fr EXCEPT !.pc = "w_save"], tight_layout(g)>>
      [] fr.pc = "w_save" ->
            IF "words_chart" \in fr.faults
            THEN <<[fr EXCEPT !.pc = "return", !.fig = NoFig], g>>
            ELSE <<[fr EXCEPT !.pc = "w_close",
                      !.charts = ("words" :>
                          _fig_to_base64(g, fr.fig, "words", WordsData(top_words)))
                          @@ fr.charts], g>>
      [] fr.pc = "w_close" ->
            <<[fr EXCEPT !.pc = "return", !.fig = NoFig], close(g, fr.fig)>>
      [] fr.pc = "return" ->
            <<[fr EXCEPT !.pc = "done", !.loc = NoLocals, !.charts = NoCharts,
                         !.result = BuildResult(fr)], g>>
      [] OTHER -> <<fr, g>>

\* a call that runs without interruption
RECURSIVE RunCall(_, _)
RunCall(fr, g) ==
    IF fr.pc = "done" THEN <<fr, g>>
    ELSE LET nx == StepFrame(fr, g) IN RunCall(nx[1], nx[2])

\* ContentAnalyzer.analyze_content(content, title) on pyplot's state g
analyze_content(content, title, faults, g) ==
    RunCall(NewFrame(content, title, faults), g)

(***************************************************************************)
(* Inputs.                                                                  *)
(***************************************************************************)
SeqsUpTo(S, n) == UNION {[1..k -> S] : k \in 1..n}

\* the items (a word, or a word and its period) separated by single blanks
TextOf(items) == JoinSpace(items)

WithPeriod(W) == {<<w>> : w \in W} \cup {<<w, Period>> : w \in W}

\* short texts over a capitalised positive word, a negative word and a stop word
TextWords == {"Good", "bad", "the"}

TextContents ==
    {Str(TextOf(items)) : items \in SeqsUpTo(WithPeriod(TextWords), MaxWords)}

\* None, "" and whitespace-only
BlankContents == {NoneContent, Str(<<>>), Str(<<Space>>), Str(<<Space, Space>>)}

\* texts of many short sentences, some with a leading blank
LongItems == {<<"cat">>, <<"42", Period>>, <<"dog", Period>>}

LongContents ==
    LET T == {TextOf(items) : items \in SeqsUpTo(LongItems, MaxSentences)}
    IN  {Str(t) : t \in T} \cup {Str(<<Space>> \o t) : t \in T}

\* texts of many distinct words, some repeated
VocabWords ==
    <<"cat", "dog", "bird", "fish", "lion", "bear", "wolf", "deer", "frog",
      "goat", "duck", "hawk", "mole">>

VocabContents ==
    UNION {
        LET base == SubSeq(VocabWords, 1, k)
            rep == {base[1], base[(k + 1) \div 2], base[k]}
        IN  {Str(JoinSpace([i \in 1..k |-> <<base[i]>>]))}
            \cup {Str(JoinSpace([i \in 1..(k + Len(x)) |->
                        IF i <= k THEN <<base[i]>> ELSE <<x[i - k]>>]))
                  : x \in SeqsUpTo(rep, MaxRepeat)}
        : k \in ChartTopN..VocabSize}

\* texts that mix capitalised words, stop words, numbers and punctuation
FilterItems == {<<"The">>, <<"the", Period>>, <<"42", Period>>, <<"Good">>}

FilterContents ==
    {Str(TextOf(items)) : items \in SeqsUpTo(FilterItems, MaxWords)}

Titles == {NoneTitle, EmptyTitle, BlankTitle, "Review"}

\* the texts analysed under every title
TitledContents == {Str(<<"Good", Period>>), Str(<<"the">>)}

\* what fails during one call: nothing, one library call, or both of a pair
FaultSets ==
    {{}} \cup {{p} : p \in FaultPoints}
    \cup {ChartFaults, {"flesch_reading_ease", "flesch_kincaid_grade"},
          {"flesch_kincaid_grade", "words_chart"},
          {"flesch_reading_ease", "sentiment_chart"},
          {"flesch_kincaid_grade", "polarity_scores"},
          {"style_use", "sentiment_chart"}}

\* the 4-decimal scores of the scorer and the values next to the thresholds
CompoundValues ==
    {100 * k : k \in -10000..10000} \cup {49999, 50001, -49999, -50001}

\* compound scores the scorer returns: every 4-decimal value within 0.06 of
\* zero (both thresholds and the values that round onto them) and the
\* 2-decimal values of [-1, 1]
ScorerCompounds ==
    {100 * k : k \in -600..600} \cup {10000 * k : k \in -100..100}

\* the pos, neg and neu of a rated text ('good good good good bad bad very bad')
RatedShares == [neg |-> 461, neu |-> 43, pos |-> 496]

RatedContents == {Str(<<"Good", Space, "bad">>)}

Threads == {1, 2}

(***************************************************************************)
(* The database (models.py) and the routes that write and read it           *)
(* (routes.py).  A nullable column is a record with a null flag; a time is  *)
(* counted in commits: the clock shows the number of the next commit.       *)
(* The server handles requests in concurrent threads (app.py 47) and no     *)
(* route holds a lock or a transaction across its queries, its analysis and *)
(* its commit: a request is a frame that moves from one access of the       *)
(* database, of the clock or of pyplot to the next.                         *)
(***************************************************************************)
NullNum == [null |-> TRUE, val |-> 0]
NullStr == [null |-> TRUE, val |-> ""]
NullText == [null |-> TRUE, val |-> <<>>]
Some(v) == [null |-> FALSE, val |-> v]

\* the database after db.create_all()
InitDb == [projects |-> <<>>, reviews |-> <<>>, replies |-> <<>>]

RecordCount(d) == Len(d.projects) + Len(d.reviews) + Len(d.replies)

\* datetime.utcnow()
Now(d) == RecordCount(d) + 1

\* str.strip() on a form field that is modelled by its name
StripName(name) == IF name = BlankTitle THEN EmptyTitle ELSE name

Quote == "\""

\* json.dumps of a list of words: ["w1", "w2"]
RECURSIVE JsonItems(_)
JsonItems(ws) ==
    IF ws = <<>> THEN <<>>
    ELSE IF Len(ws) = 1 THEN <<Quote, Head(ws), Quote>>
    ELSE <<Quote, Head(ws), Quote, ", ">> \o JsonItems(Tail(ws))

json_dumps(ws) == <<"[">> \o JsonItems(ws) \o <<"]">>

\* Project(name=..., description=...) of line 68; the id is 0 until the row
\* is inserted and the two times are 0 until their column defaults are read
Project(name, description) ==
    [id |-> 0, name |-> name, description |-> description,
     created_at |-> 0, updated_at |-> 0]

\* Review(...) of lines 128-136: the other columns are null; the id and
\* created_at are 0 until the flush of the commit
Review(project_id, title, content) ==
    [id |-> 0, project_id |-> project_id, title |-> title,
     content |-> content, author |-> "", source_url |-> "", rating |-> NullNum,
     sentiment_score |-> NullNum, sentiment_label |-> NullStr,
     sentiment_confidence |-> NullNum, positive_score |-> NullNum,
     negative_score |-> NullNum, neutral_score |-> NullNum,
     word_count |-> SplitCount(content), readability_score |-> NullNum,
     topics |-> NullText, keywords |-> NullText,
     created_at |-> 0, analyzed_at |-> NullNum]

\* Reply(...) of lines 185-190
Reply(review_id, content) ==
    [id |-> 0, review_id |-> review_id, content |-> content,
     author |-> "",
     sentiment_score |-> NullNum, sentiment_label |-> NullStr,
     sentiment_confidence |-> NullNum, positive_score |-> NullNum,
     negative_score |-> NullNum, neutral_score |-> NullNum,
     word_count |-> SplitCount(content), keywords |-> NullText,
     created_at |-> 0, analyzed_at |-> NullNum]

\* the INSERT of the commit: the next id of the table
Inserted(rec, rows) == [rec EXCEPT !.id = Len(rows) + 1]

\* Project.query.get_or_404 / Review.query.get_or_404
Exists(rows, id) == id \in 1..Len(rows)

\* the columns both routes set from a successful result (lines 142-147, 149,
\* 150 and 196-203)
WithSentiment(rec, result, now) ==
    [rec EXCEPT !.sentiment_score = Some(result.sentiment.compound),
                !.sentiment_label = Some(result.sentiment.label),
                !.sentiment_confidence = Some(result.sentiment_confidence),
                !.positive_score = Some(result.sentiment.positive),
                !.negative_score = Some(result.sentiment.negative),
                !.neutral_score = Some(result.sentiment.neutral),
                !.keywords = Some(json_dumps(result.keywords)),
                !.analyzed_at = Some(now)]

\* line 148, add_review only
WithReadability(rec, result) ==
    [rec EXCEPT !.readability_score = Some(result.statistics.readability_score)]

\* mutant: a failed analysis keeps the record out of the session
Analysed_DropOnFailure(rec, fr, now, isReview) ==
    IF fr.raised # NoException \/ ~fr.result.success
    THEN [saved |-> FALSE, rec |-> rec, flash |-> <<>>]
    ELSE [saved |-> TRUE, flash |-> <<>>,
          rec |-> IF isReview
                  THEN WithReadability(WithSentiment(rec, fr.result, now), fr.result)
                  ELSE WithSentiment(rec, fr.result, now)]

\* lines 139-153 and 193-206: the try block around the analysis, for the
\* finished call fr; the record is saved whatever the outcome
Analysed(rec, fr, now, isReview) ==
    IF fr.raised # NoException
    THEN [saved |-> TRUE, rec |-> rec,
          flash |-> <<"saved but sentiment analysis failed">>]
    ELSE IF fr.result.success
    THEN [saved |-> TRUE, flash |-> <<>>,
          rec |-> IF isReview
                  THEN WithReadability(WithSentiment(rec, fr.result, now), fr.result)
                  ELSE WithSentiment(rec, fr.result, now)]
    ELSE [saved |-> TRUE, rec |-> rec, flash |-> <<>>]

\* mutant: the stored label is used as the key
LabelKey_AsStored(label) == label

\* review.sentiment_label.lower()
LabelKey(label) ==
    CASE label = "Positive" -> "positive"
      [] label = "Negative" -> "negative"
      [] label = "Neutral" -> "neutral"
      [] OTHER -> label

EmptyDist == [positive |-> 0, negative |-> 0, neutral |-> 0]

\* the loop of lines 28-30 and of models.py 36-38: a label that is not a key
\* of the dict raises KeyError
RECURSIVE CountLabels(_, _)
CountLabels(rows, acc) ==
    IF rows = <<>> \/ acc.raised THEN acc
    ELSE LET label == Head(rows).sentiment_label
         IN  IF label.null \/ label.val = ""
             THEN CountLabels(Tail(rows), acc)
             ELSE IF LabelKey(label.val) \in DOMAIN acc.dist
             THEN CountLabels(Tail(rows),
                    [acc EXCEPT !.dist[LabelKey(label.val)] = @ + 1])
             ELSE [acc EXCEPT !.raised = TRUE]

\* Project.sentiment_distribution (models.py 30-39)
sentiment_distribution(d, project_id) ==
    CountLabels(SelectSeq(d.reviews, LAMBDA r : r.project_id = project_id),
                [raised |-> FALSE, dist |-> EmptyDist])

\* sentiment_dist of the dashboard (routes.py 24-30)
sentiment_dist(d) == CountLabels(d.reviews, [raised |-> FALSE, dist |-> EmptyDist])

NoForm == [title |-> EmptyTitle, content |-> <<>>, faults |-> {}]

NoRecord == [id |-> 0]

\* what index() has read so far: the three counts, the number of rows of
\* Review.query.all() and the distribution counted over them
NoStats ==
    [total_projects |-> 0, total_reviews |-> 0, total_replies |-> 0,
     all_reviews |-> 0, sentiment_distribution |-> EmptyDist]

\* a request in a thread: where it stands (pc), what was asked, the record it
\* is building, the time read at line 158, and the response once pc is "done"
IdleRequest ==
    [pc |-> "idle", op |-> "<none>", method |-> "GET", target |-> 0,
     form |-> NoForm, rec |-> NoRecord, stamp |-> 0,
     status |-> 0, called |-> FALSE, flash |-> <<>>, stats |-> NoStats]

\* the response of a request
Response(op, method, target, form, status, called, flash) ==
    [IdleRequest EXCEPT !.pc = "done", !.op = op, !.method = method,
                        !.target = target, !.form = form, !.status = status,
                        !.called = called, !.flash = flash]

\* mutant: the form field is not trimmed
FormValue_NoStrip(text) == text

\* request.form.get('content', '').strip()
FormValue(text) == Strip(text)

\* what the review form submits as content: nothing, blanks, and a text
\* between blanks
FormContents == {<<>>, <<Space>>, <<Space, "Good", Period, Space>>}

\* what the reply form submits as content
ReplyContents == {<<>>, <<Space>>, <<"the", Space>>}

\* the title field of the review form is left blank
FormTitles == {BlankTitle}

\* the analysis runs, or its tokenizer raises
WebFaults == {{}, {"sent_tokenize"}}

Methods == {"GET", "POST"}

\* the requests that will insert a row
Writers ==
    {t \in Threads :
        req[t].pc \in {"analysis", "stamp", "created_at", "updated_at", "commit"}}

HasRoom == RecordCount(db) + Cardinality(Writers) < MaxRecords

\* the clients' side: a request is sent when no response is waiting to be
\* read, and it is taken by the first thread that is free; the requests in
\* progress go on in any order
CanBegin(t) ==
    /\ req[t].pc = "idle"
    /\ \A u \in Threads : req[u].pc # "done"
    /\ \A u \in Threads : u < t => req[u].pc # "idle"

Answer(t, response) == req' = [req EXCEPT ![t] = response]

\* new_project (routes.py 57-75), up to db.session.commit() (line 70)
NewProject(t) ==
    /\ CanBegin(t)
    /\ \E method \in Methods :
        IF method = "GET"
        THEN Answer(t, Response("new_project", method, 0, NoForm, 200, FALSE, <<>>))
        ELSE \E name \in {BlankTitle, "Story"} :
            LET form == [NoForm EXCEPT !.title = name]
            IN  IF StripName(name) = EmptyTitle
                THEN Answer(t, Response("new_project", method, 0, form, 200, FALSE,
                                        <<"Project name is required.">>))
                ELSE /\ HasRoom
                     /\ req' = [req EXCEPT ![t] =
                            [IdleRequest EXCEPT !.pc = "created_at", !.op = "new_project",
                                                !.method = method, !.form = form,
                                                !.rec = Project(StripName(name), "")]]
    /\ UNCHANGED <<db, plt, thr>>

\* the request goes on to analyzer.analyze_content (lines 140, 194) with the
\* record rec it has built
CallAnalyzer(t, op, target, form, rec, content, title) ==
    /\ HasRoom
    /\ req' = [req EXCEPT ![t] =
                [IdleRequest EXCEPT !.pc = "analysis", !.op = op, !.method = "POST",
                                    !.target = target, !.form = form, !.rec = rec,
                                    !.called = TRUE]]
    /\ thr' = [thr EXCEPT ![t] = NewFrame(Str(content), title, form.faults)]
    /\ UNCHANGED <<db, plt>>

\* add_review (routes.py 111-164), from get_or_404 to the call of the
\* analyzer, or to the response when no review is to be stored
AddReview(t) ==
    /\ CanBegin(t)
    /\ \E project_id \in 1..(Len(db.projects) + 1), method \in Methods :
        IF ~Exists(db.projects, project_id)
        THEN /\ Answer(t, Response("add_review", method, project_id, NoForm, 404,
                                   FALSE, <<>>))
             /\ UNCHANGED <<db, plt, thr>>
        ELSE IF method = "GET"
        THEN /\ Answer(t, Response("add_review", method, project_id, NoForm, 200,
                                   FALSE, <<>>))
             /\ UNCHANGED <<db, plt, thr>>
        ELSE \E ftitle \in FormTitles, fcontent \in FormContents :
            LET title == StripName(ftitle)
                content == FormValue(fcontent)
                form == [title |-> ftitle, content |-> fcontent, faults |-> {}]
            IN  IF content = <<>>
                THEN /\ Answer(t, Response("add_review", method, project_id, form, 200,
                                           FALSE, <<"Review content is required.">>))
                     /\ UNCHANGED <<db, plt, thr>>
                ELSE \E faults \in WebFaults :
                        CallAnalyzer(t, "add_review", project_id,
                                     [form EXCEPT !.faults = faults],
                                     Review(project_id, title, content), content, title)

\* add_reply (routes.py 172-212), likewise; the route accepts POST only
AddReply(t) ==
    /\ CanBegin(t)
    /\ \E review_id \in 1..(Len(db.reviews) + 1), method \in Methods :
        IF method # "POST"
        THEN /\ Answer(t, Response("add_reply", method, review_id, NoForm, 405,
                                   FALSE, <<>>))
             /\ UNCHANGED <<db, plt, thr>>
        ELSE IF ~Exists(db.reviews, review_id)
        THEN /\ Answer(t, Response("add_reply", method, review_id, NoForm, 404,
                                   FALSE, <<>>))
             /\ UNCHANGED <<db, plt, thr>>
        ELSE \E fcontent \in ReplyContents :
            LET content == FormValue(fcontent)
                form == [title |-> EmptyTitle, content |-> fcontent, faults |-> {}]
            IN  IF content = <<>>
                THEN /\ Answer(t, Response("add_reply", method, review_id, form, 302,
                                           FALSE, <<"Reply content is required.">>))
                     /\ UNCHANGED <<db, plt, thr>>
                ELSE \E faults \in WebFaults :
                        CallAnalyzer(t, "add_reply", review_id,
                                     [form EXCEPT !.faults = faults],
                                     Reply(review_id, content), content, NoneTitle)

\* the analysis of the request moves to its next access of pyplot
Analysis(t) ==
    /\ req[t].pc = "analysis"
    /\ thr[t].pc # "done"
    /\ LET nx == StepFrame(thr[t], plt)
       IN  /\ thr' = [thr EXCEPT ![t] = nx[1]]
           /\ plt' = nx[2]
    /\ UNCHANGED <<db, req>>

\* lines 141-153 and 195-206: the columns are set from the result, with
\* analyzed_at read from the clock now
StoreResult(t) ==
    /\ req[t].pc = "analysis"
    /\ thr[t].pc = "done"
    /\ LET isReview == req[t].op = "add_review"
           a == Analysed(req[t].rec, thr[t], Now(db), isReview)
       IN  req' = [req EXCEPT ![t].rec = a.rec,
                              ![t].flash = a.flash,
                              ![t].pc = IF ~a.saved THEN "drop"
                                        ELSE IF isReview THEN "stamp" ELSE "created_at"]
    /\ thr' = [thr EXCEPT ![t] = IdleFrame]
    /\ UNCHANGED <<db, plt>>

\* lines 155-158 of add_review: the project's timestamp is read from the clock
Touch(t) ==
    /\ req[t].pc = "stamp"
    /\ req' = [req EXCEPT ![t].stamp = Now(db), ![t].pc = "created_at"]
    /\ UNCHANGED <<db, plt, thr>>

\* the flush of db.session.commit() reads a column default from the clock
\* (datetime.utcnow of models.py 10, 11, 65, 104) before the INSERT is sent:
\* created_at, and for a project updated_at after it
ColumnDefault(t) ==
    /\ req[t].pc \in {"created_at", "updated_at"}
    /\ req' = [req EXCEPT ![t] =
            IF req[t].pc = "updated_at"
            THEN [@ EXCEPT !.rec.updated_at = Now(db), !.pc = "commit"]
            ELSE [@ EXCEPT !.rec.created_at = Now(db),
                           !.pc = IF req[t].op = "new_project"
                                  THEN "updated_at" ELSE "commit"]]
    /\ UNCHANGED <<db, plt, thr>>

\* the INSERT and COMMIT of db.session.commit() and the redirect (lines 70-73,
\* 159-162 and 209-212)
Commit(t) ==
    /\ req[t].pc \in {"commit", "drop"}
    /\ LET fr == req[t]
       IN  /\ db' = IF fr.pc = "drop" THEN db
                    ELSE IF fr.op = "new_project"
                    THEN [db EXCEPT
                            !.projects = Append(@, Inserted(fr.rec, db.projects))]
                    ELSE IF fr.op = "add_review"
                    THEN [db EXCEPT
                            !.reviews = Append(@, Inserted(fr.rec, db.reviews)),
                            !.projects[fr.target].updated_at = fr.stamp]
                    ELSE [db EXCEPT
                            !.replies = Append(@, Inserted(fr.rec, db.replies))]
           /\ Answer(t,
                IF fr.op = "new_project"
                THEN Response(fr.op, "POST", Len(db.projects) + 1, fr.form, 302,
                              FALSE, <<"created successfully!">>)
                ELSE Response(fr.op, "POST", fr.target, fr.form, 302, TRUE,
                              fr.flash \o <<IF fr.op = "add_review"
                                            THEN "Review added successfully!"
                                            ELSE "Reply added successfully!">>))
    /\ UNCHANGED <<plt, thr>>

\* index (routes.py 12-49) begins with Project.query.count() (line 16)
Index(t) ==
    /\ CanBegin(t)
    /\ req' = [req EXCEPT ![t] =
                [IdleRequest EXCEPT !.pc = "line 17", !.op = "index",
                                    !.stats.total_projects = Len(db.projects)]]
    /\ UNCHANGED <<db, plt, thr>>

\* the next query of index(): lines 17, 18, 21, 22 (the rows of the two
\* recent-activity queries go to the template only), and line 25 with the
\* loop over its rows; a KeyError in the loop is answered by the 500 handler
IndexQuery(t) ==
    /\ req[t].op = "index"
    /\ req[t].pc \notin {"idle", "done"}
    /\ LET pc == req[t].pc
           c == sentiment_dist(db)
       IN  req' = [req EXCEPT ![t] =
            CASE pc = "line 17" ->
                    [@ EXCEPT !.pc = "line 18", !.stats.total_reviews = Len(db.reviews)]
              [] pc = "line 18" ->
                    [@ EXCEPT !.pc = "line 21", !.stats.total_replies = Len(db.replies)]
              [] pc = "line 21" ->
                    [@ EXCEPT !.pc = "line 22"]
              [] pc = "line 22" ->
                    [@ EXCEPT !.pc = "line 25"]
              [] OTHER ->
                    [@ EXCEPT !.pc = "done",
                              !.status = IF c.raised THEN 500 ELSE 200,
                              !.stats.all_reviews = Len(db.reviews),
                              !.stats.sentiment_distribution = c.dist]]
    /\ UNCHANGED <<db, plt, thr>>

\* a read of Project.sentiment_distribution (models.py 30-39), as the
\* analytics page does for each project: one query for the project's reviews
ProjectDistribution(t) ==
    /\ CanBegin(t)
    /\ \E project_id \in 1..Len(db.projects) :
        LET c == sentiment_distribution(db, project_id)
            n == Len(SelectSeq(db.reviews, LAMBDA r : r.project_id = project_id))
        IN  Answer(t, [Response("sentiment_distribution", "GET", project_id, NoForm,
                                IF c.raised THEN 500 ELSE 200, FALSE, <<>>)
                       EXCEPT !.stats.total_projects = 1,
                              !.stats.all_reviews = n,
                              !.stats.sentiment_distribution = c.dist])
    /\ UNCHANGED <<db, plt, thr>>

\* the response is sent and the thread is free again
Respond(t) ==
    /\ req[t].pc = "done"
    /\ req' = [req EXCEPT ![t] = IdleRequest]
    /\ UNCHANGED <<db, plt, thr>>

NextWeb ==
    \E t \in Threads :
        \/ NewProject(t)
        \/ AddReview(t)
        \/ AddReply(t)
        \/ Analysis(t)
        \/ StoreResult(t)
        \/ Touch(t)
        \/ ColumnDefault(t)
        \/ Commit(t)
        \/ Index(t)
        \/ IndexQuery(t)
        \/ ProjectDistribution(t)
        \/ Respond(t)

(***************************************************************************)
(* Sequential use: one caller, each call runs to completion.                *)
(***************************************************************************)
Init ==
    /\ plt = InitPlt
    /\ thr = [t \in Threads |-> IdleFrame]
    /\ db = InitDb
    /\ req = [t \in Threads |-> IdleRequest]

\* figures left open by failed charts stay in the registry
FigsFit(g, faults) == Len(g.figs) + Cardinality(faults \cap ChartFaults) <= MaxFigs

CanCall == thr[1].pc = "idle"

Analyze(content, title, faults) ==
    /\ FigsFit(plt, faults)
    /\ LET r == analyze_content(content, title, faults, plt)
       IN  /\ thr' = [thr EXCEPT ![1] = r[1]]
           /\ plt' = r[2]
    /\ UNCHANGED <<db, req>>

AnalyzeBlank ==
    /\ CanCall
    /\ \E c \in BlankContents, t \in Titles, f \in FaultSets : Analyze(c, t, f)

AnalyzeTitled ==
    /\ CanCall
    /\ \E c \in TitledContents, t \in Titles, f \in FaultSets : Analyze(c, t, f)

AnalyzeText ==
    /\ CanCall
    /\ \E c \in TextContents, f \in FaultSets : Analyze(c, NoneTitle, f)

AnalyzeLong ==
    /\ CanCall
    /\ \E c \in LongContents, f \in {{}} \cup {{p} : p \in ChartFaults} :
            Analyze(c, NoneTitle, f)

AnalyzeVocab ==
    /\ CanCall
    /\ \E c \in VocabContents, f \in {{}, {"words_chart"}} : Analyze(c, NoneTitle, f)

AnalyzeFilter ==
    /\ CanCall
    /\ \E c \in FilterContents : Analyze(c, NoneTitle, {})

\* a call on a text that the scorer rates c
AnalyzeRated ==
    /\ CanCall
    /\ \E content \in RatedContents, c \in ScorerCompounds :
        LET sia == RatingScorer([neg |-> RatedShares.neg, neu |-> RatedShares.neu,
                                 pos |-> RatedShares.pos, compound |-> c])
            r == RunCall([NewFrame(content, NoneTitle, {}) EXCEPT !.sia = sia], plt)
        IN  /\ FigsFit(plt, {})
            /\ thr' = [thr EXCEPT ![1] = r[1]]
            /\ plt' = r[2]
    /\ UNCHANGED <<db, req>>

\* a direct use of the label function
GetSentimentLabel ==
    /\ CanCall
    /\ \E c \in CompoundValues :
        thr' = [thr EXCEPT ![1] =
                [IdleFrame EXCEPT !.pc = "done", !.op = "_get_sentiment_label",
                                  !.compound = c, !.label = _get_sentiment_label(c)]]
    /\ UNCHANGED <<plt, db, req>>

\* the caller takes the result
Return ==
    /\ thr[1].pc = "done"
    /\ thr' = [thr EXCEPT ![1] = IdleFrame]
    /\ UNCHANGED <<plt, db, req>>

Next ==
    \/ AnalyzeBlank
    \/ AnalyzeTitled
    \/ AnalyzeText
    \/ AnalyzeLong
    \/ AnalyzeVocab
    \/ AnalyzeFilter
    \/ AnalyzeRated
    \/ GetSentimentLabel
    \/ Return

Spec == Init /\ [][Next]_vars

(***************************************************************************)
(* Concurrent use: the threads of the web server call the shared analyzer;  *)
(* a thread may be preempted between any two accesses of pyplot's state.    *)
(***************************************************************************)
ConcContents == {Str(<<"Good", Period>>), Str(<<"the">>)}

Enter(t) ==
    /\ thr[t].pc = "idle"
    /\ \E c \in ConcContents : thr' = [thr EXCEPT ![t] = NewFrame(c, NoneTitle, {})]
    /\ UNCHANGED <<plt, db, req>>

Step(t) ==
    /\ thr[t].pc \notin {"idle", "done"}
    /\ LET nx == StepFrame(thr[t], plt)
       IN  /\ thr' = [thr EXCEPT ![t] = nx[1]]
           /\ plt' = nx[2]
    /\ UNCHANGED <<db, req>>

\* each thread makes one call
NextConc == \E t \in Threads : Enter(t) \/ Step(t)

SpecConc == Init /\ [][NextConc]_vars

(***************************************************************************)
(* The web application: the threads of the server handle requests at the   *)
(* same time.                                                               *)
(***************************************************************************)
SpecWeb == Init /\ [][NextWeb]_vars

(***************************************************************************)
(* Properties.                                                              *)
(***************************************************************************)
Call == thr[1]

\* a call of analyze_content has returned to the sequential caller
CallDone == Call.pc = "done" /\ Call.op = "analyze_content"

CallOk == CallDone /\ Call.raised = NoException /\ Call.result.success

\* content is null, empty or whitespace-only
BlankInput(content) == content.null \/ \A i \in 1..Len(content.text) : content.text[i] = Space

\* the result of the same call in a fresh process, with the given failures
Fresh(fr, faults) ==
    RunCall([NewFrame(fr.content, fr.title, faults) EXCEPT !.sia = fr.sia], InitPlt)[1].result

\* a chart was attempted and its rendering failed
ChartFailed(fr, chart) == chart \in fr.ran /\ chart \in fr.faults

LabelRule(x) ==
    IF x >= 50000 THEN "Positive" ELSE IF x <= -50000 THEN "Negative" ELSE "Neutral"

\* C1: for null, empty or whitespace-only content analyze_content returns
\* success=false with the error message of the empty-content test and no
\* other field, and no tokenizer, scorer or chart stage has run.
C1_EmptyContentAborts ==
    (CallDone /\ BlankInput(Call.content)) =>
        /\ Call.raised = NoException
        /\ DOMAIN Call.result = {"success", "error"}
        /\ Call.result.success = FALSE
        /\ Call.result.error = <<"Analysis failed: ", "No content provided for analysis">>
        /\ Call.ran = {}

C1_Witness ==
    /\ CallDone
    /\ Call.content = Str(<<Space, Space>>)
    /\ Call.result.success = FALSE

\* C2: for every content that is non-empty after trimming, analyze_content
\* returns success=true, whatever any stage does.
C2_NonEmptyAlwaysSucceeds ==
    (CallDone /\ ~BlankInput(Call.content)) =>
        (Call.raised = NoException /\ Call.result.success = TRUE)

\* C3: no exception leaves analyze_content: every call returns a result whose
\* success field is true or false, also when a stage raises.
C3_NoExceptionPropagates ==
    CallDone =>
        /\ Call.raised = NoException
        /\ Call.result # NoResult
        /\ "success" \in DOMAIN Call.result
        /\ Call.result.success \in BOOLEAN
        /\ ~Call.result.success => Call.result.error[1] = "Analysis failed: "

C3_Witness ==
    /\ CallDone
    /\ "polarity_scores" \in Call.faults \cap Call.ran
    /\ Call.raised = NoException
    /\ Call.result.success = FALSE

\* C4: the label is decided by the compound score alone, with inclusive
\* thresholds: >= 0.05 Positive, <= -0.05 Negative, strictly between Neutral;
\* and the label of a result is the label of the scorer's compound score.
C4_LabelThresholds ==
    /\ (Call.pc = "done" /\ Call.op = "_get_sentiment_label") =>
        /\ Call.label \in {"Positive", "Negative", "Neutral"}
        /\ Call.compound >= 50000 => Call.label = "Positive"
        /\ Call.compound <= -50000 => Call.label = "Negative"
        /\ (Call.compound > -50000 /\ Call.compound < 50000) => Call.label = "Neutral"
    /\ CallOk =>
        Call.result.sentiment.label = LabelRule(Scores(Call.sia, Call.content.text).compound)

C4_Witness ==
    /\ Call.pc = "done"
    /\ Call.op = "_get_sentiment_label"
    /\ Call.compound = 50000
    /\ Call.label = "Positive"

\* C5: with at most 3 sentences the summary is the content unchanged; with
\* n > 3 sentences it is sentence 0, sentence n // 2 and the last sentence
\* joined by single blanks, which are three sentences.
C5_SummaryLaw ==
    CallOk =>
        LET text == Call.content.text
            sn == sent_tokenize(text)
            n == Len(sn)
        IN  IF n <= 3 THEN Call.result.summary = text
            ELSE /\ Call.result.summary =
                        sn[1] \o <<Space>> \o sn[(n \div 2) + 1] \o <<Space>> \o sn[n]
                 /\ Len(sent_tokenize(Call.result.summary)) = 3

C5_Witness ==
    /\ CallOk
    /\ Len(sent_tokenize(Call.content.text)) = 4
    /\ Call.content.text[1] = Space
    /\ Call.result.summary # Call.content.text

\* C6: top_words has at most 10 entries, in descending order of count, equal
\* counts in the order of first occurrence among the filtered tokens, no word
\* twice, and keywords is the list of its words in the same order.
C6_TopWordsOrdered ==
    CallOk =>
        LET tw == Call.result.top_words
            filt == words_filtered(word_tokenize(Lower(Call.content.text)))
            FirstPos(w) == CHOOSE i \in 1..Len(filt) :
                                filt[i] = w /\ \A j \in 1..(i - 1) : filt[j] # w
        IN  /\ Len(tw) <= 10
            /\ \A i \in 1..Len(tw) : \E k \in 1..Len(filt) : filt[k] = tw[i][1]
            /\ \A i, j \in 1..Len(tw) :
                    i < j =>
                        /\ tw[i][2] >= tw[j][2]
                        /\ tw[i][1] # tw[j][1]
                        /\ tw[i][2] = tw[j][2] => FirstPos(tw[i][1]) < FirstPos(tw[j][1])
            /\ Call.result.keywords = [i \in 1..Len(tw) |-> tw[i][1]]
            /\ Len(Call.result.keywords) <= 10

C6_Witness ==
    /\ CallOk
    /\ Len(Call.result.top_words) = 10
    /\ Cardinality({w \in {VocabWords[i] : i \in 1..Len(VocabWords)} :
            \E k \in 1..Len(Call.content.text) : Call.content.text[k] = w}) = 11
    /\ Call.result.top_words[1][2] > Call.result.top_words[2][2]
    /\ Call.result.top_words[2][2] = Call.result.top_words[3][2]

\* C7: the result of a call depends on content, title and the failures of the
\* library calls alone: after any earlier calls it is the result the same
\* call gives in a fresh process.
C7_Deterministic ==
    CallDone =>
        /\ Call.raised = NoException
        /\ Call.result = Fresh(Call, Call.faults)

C7_Witness ==
    /\ CallOk
    /\ Call.faults = {}
    /\ Len(plt.figs) = 2
    /\ DOMAIN Call.result.charts = {"sentiment", "words"}

\* C8: each of two concurrent calls returns the result it returns when it
\* runs alone.
C8_ConcurrentSameAsAlone ==
    \A t \in Threads :
        thr[t].pc = "done" => thr[t].result = Fresh(thr[t], thr[t].faults)

\* C9 as stated: when the rendering of one chart fails, charts holds exactly
\* the other chart, and the call succeeds.
C9_ExactlyTheOtherChart ==
    CallDone =>
        /\ (ChartFailed(Call, "sentiment_chart") /\ ~ChartFailed(Call, "words_chart")) =>
                (Call.result.success /\ DOMAIN Call.result.charts = {"words"})
        /\ (ChartFailed(Call, "words_chart") /\ ~ChartFailed(Call, "sentiment_chart")) =>
                (Call.result.success /\ DOMAIN Call.result.charts = {"sentiment"})

\* C9 amended: a failed chart is left out and the other chart is unaffected:
\* when the words chart fails charts holds exactly the sentiment chart; when
\* the sentiment chart fails charts holds exactly the words chart if
\* top_words is non-empty and nothing if it is empty; when both fail charts is
\* empty.  The keys are among sentiment and words, the call succeeds, and all
\* other fields and the remaining chart are those of the call without the
\* chart failure.
C9_ChartDegradation ==
    (CallDone /\ (ChartFailed(Call, "sentiment_chart") \/ ChartFailed(Call, "words_chart"))) =>
        /\ Call.raised = NoException
        /\ Call.result.success
        /\ LET charts == Call.result.charts
               base == Fresh(Call, Call.faults \ ChartFaults)
           IN  /\ DOMAIN charts \subseteq {"sentiment", "words"}
               /\ "sentiment" \in DOMAIN charts <=> ~ChartFailed(Call, "sentiment_chart")
               /\ "words" \in DOMAIN charts <=>
                    (~ChartFailed(Call, "words_chart") /\ Call.result.top_words # <<>>)
               /\ base.success
               /\ \A k \in DOMAIN charts : charts[k] = base.charts[k]
               /\ [Call.result EXCEPT !.charts = NoCharts] = [base EXCEPT !.charts = NoCharts]

C9_Witness ==
    /\ CallOk
    /\ ChartFailed(Call, "sentiment_chart")
    /\ ~ChartFailed(Call, "words_chart")
    /\ DOMAIN Call.result.charts = {"words"}

\* C10: when a readability formula fails, readability_score and grade_level
\* are both 0 and everything else is as in the call without that failure,
\* which succeeds whenever that call does.
C10_ReadabilityRecoverable ==
    (CallDone /\ "flesch_reading_ease" \in Call.ran
              /\ Call.faults \cap {"flesch_reading_ease", "flesch_kincaid_grade"} # {}) =>
        LET base == Fresh(Call, Call.faults \ {"flesch_reading_ease", "flesch_kincaid_grade"})
        IN  /\ Call.raised = NoException
            /\ Call.result.success = base.success
            /\ Call.result.success =>
                /\ Call.result.statistics.readability_score = 0
                /\ Call.result.statistics.grade_level = 0
                /\ Call.result = [base EXCEPT !.statistics.readability_score = 0,
                                              !.statistics.grade_level = 0]

C10_Witness ==
    /\ CallOk
    /\ Call.faults = {"flesch_kincaid_grade"}
    /\ flesch_reading_ease(Call.content.text) # 0
    /\ Call.result.statistics.readability_score = 0
    /\ Call.result.statistics.grade_level = 0
    /\ DOMAIN Call.result.charts = {"sentiment", "words"}

\* the fields of a successful result (lines 90-113)
SuccessFields ==
    {"success", "title", "statistics", "sentiment", "top_words", "summary",
     "charts", "keywords", "sentiment_confidence"}

\* C11: a successful result has exactly the fields success (true), title,
\* statistics, sentiment, top_words, summary, charts, keywords and
\* sentiment_confidence, and no error field; statistics and sentiment are
\* complete; title is the supplied title when one is given and 'Untitled'
\* when the title is None or the empty string.
C11_SuccessShape ==
    CallOk =>
        /\ DOMAIN Call.result = SuccessFields
        /\ "error" \notin DOMAIN Call.result
        /\ Call.result.success = TRUE
        /\ DOMAIN Call.result.statistics =
                {"word_count", "character_count", "sentence_count",
                 "avg_sentence_length", "readability_score", "grade_level"}
        /\ DOMAIN Call.result.sentiment =
                {"compound", "positive", "negative", "neutral", "label"}
        /\ DOMAIN Call.result.charts \subseteq {"sentiment", "words"}
        /\ Call.title \in {NoneTitle, EmptyTitle} => Call.result.title = "Untitled"
        /\ Call.title \notin {NoneTitle, EmptyTitle} => Call.result.title = Call.title

C11_Witness ==
    /\ CallOk
    /\ Call.title = EmptyTitle
    /\ Call.result.title = "Untitled"
    /\ DOMAIN Call.result = SuccessFields

\* C12: a token of the lowercased content is counted iff it is alphabetic
\* and not a stop word: every word of top_words and keywords is lowercase,
\* alphabetic and not a stop word, its count is the number of its occurrences
\* among the lowercased tokens, every such token is listed when there are at
\* most 10 of them, and content of stop words, numbers and punctuation only
\* gives empty top_words and keywords in a successful result.
C12_KeywordFilter ==
    /\ CallOk =>
        LET raw == word_tokenize(Call.content.text)
            Kept == {LowerAtom(raw[i]) : i \in {j \in 1..Len(raw) :
                        /\ IsAlpha(LowerAtom(raw[j]))
                        /\ LowerAtom(raw[j]) \notin stop_words}}
            Occurrences(w) == Cardinality({i \in 1..Len(raw) : LowerAtom(raw[i]) = w})
            tw == Call.result.top_words
            kw == Call.result.keywords
        IN  /\ \A i \in 1..Len(tw) :
                    /\ tw[i][1] \in Kept
                    /\ tw[i][1] = LowerAtom(tw[i][1])
                    /\ IsAlpha(tw[i][1])
                    /\ tw[i][1] \notin stop_words
                    /\ tw[i][2] = Occurrences(tw[i][1])
            /\ Len(tw) = (IF Cardinality(Kept) < 10 THEN Cardinality(Kept) ELSE 10)
            /\ Cardinality(Kept) <= 10 => {tw[i][1] : i \in 1..Len(tw)} = Kept
            /\ Len(kw) = Len(tw)
            /\ \A i \in 1..Len(kw) : kw[i] = tw[i][1]
            /\ Kept = {} => (tw = <<>> /\ kw = <<>>)
    /\ (CallDone /\ Call.faults = {} /\ ~BlankInput(Call.content)) => Call.result.success

C12_Witness ==
    /\ CallOk
    /\ Call.content = Str(<<"The", Space, "42", Period>>)
    /\ Call.result.top_words = <<>>
    /\ Call.result.keywords = <<>>

\* C13: the words chart is drawn from the first min(8, len(top_words))
\* entries of top_words, in their order; it is drawn whenever top_words is
\* non-empty and its rendering does not fail; when top_words is empty no
\* words chart is attempted or listed, the sentiment chart is still listed
\* and the call succeeds.
C13_WordsChartPrefix ==
    /\ CallOk =>
        LET tw == Call.result.top_words
            charts == Call.result.charts
            n == IF Len(tw) < 8 THEN Len(tw) ELSE 8
        IN  /\ "words" \in DOMAIN charts =>
                    /\ tw # <<>>
                    /\ charts["words"].kind = "words"
                    /\ Len(charts["words"].data) = n
                    /\ \A i \in 1..n : charts["words"].data[i] = tw[i]
            /\ (tw # <<>> /\ "words_chart" \notin Call.faults) => "words" \in DOMAIN charts
            /\ tw = <<>> =>
                    /\ "words" \notin DOMAIN charts
                    /\ "words_chart" \notin Call.ran
                    /\ "sentiment_chart" \notin Call.faults => DOMAIN charts = {"sentiment"}
    /\ (CallDone /\ Call.faults = {} /\ ~BlankInput(Call.content)) => Call.result.success

C13_Witness ==
    /\ CallOk
    /\ Len(Call.result.top_words) = 10
    /\ "words" \in DOMAIN Call.result.charts
    /\ Len(Call.result.charts["words"].data) = 8
    /\ Call.result.charts["words"].data[8] = Call.result.top_words[8]

\* C14: in a successful result the label is the one the threshold rule
\* (>= 0.05 Positive, <= -0.05 Negative, else Neutral) gives for the compound
\* score as reported, rounded to 3 decimals.
C14_LabelAgreesWithReported ==
    CallOk => Call.result.sentiment.label = LabelRule(Call.result.sentiment.compound)

\* the columns a route sets from the result of the analysis
SentimentColumns(rec) ==
    <<rec.sentiment_score, rec.sentiment_label, rec.sentiment_confidence,
      rec.positive_score, rec.negative_score, rec.neutral_score>>

AnalysisColumnsNull(rec, isReview) ==
    /\ \A i \in 1..6 : SentimentColumns(rec)[i].null
    /\ rec.keywords.null
    /\ rec.analyzed_at.null
    /\ isReview => rec.readability_score.null

AnalysisColumnsFrom(rec, result, isReview) ==
    /\ rec.sentiment_score = Some(result.sentiment.compound)
    /\ rec.sentiment_label = Some(result.sentiment.label)
    /\ rec.sentiment_confidence = Some(result.sentiment_confidence)
    /\ rec.positive_score = Some(result.sentiment.positive)
    /\ rec.negative_score = Some(result.sentiment.negative)
    /\ rec.neutral_score = Some(result.sentiment.neutral)
    /\ ~rec.keywords.null
    /\ rec.keywords.val = <<"[">> \o JsonItems(result.keywords) \o <<"]">>
    /\ ~rec.analyzed_at.null
    /\ isReview => rec.readability_score = Some(result.statistics.readability_score)

\* analyze_content on a fresh pyplot for every content, title and fault the
\* forms can submit
SubmittedAnalysis ==
    [content \in {Strip(c) : c \in FormContents \cup ReplyContents} \ {<<>>},
     title \in {StripName(ti) : ti \in FormTitles} \cup {NoneTitle},
     faults \in WebFaults |->
        analyze_content(Str(content), title, faults, InitPlt)[1]]

\* C15: a POST of add_review to an existing project, or of add_reply to an
\* existing review, stores exactly one new record iff the content is
\* non-empty after trimming, whatever the analysis does: when the analysis
\* succeeds the record's sentiment columns, keywords and analyzed_at are all
\* set from its result; when it returns success=false or raises the record is
\* stored with all of them null; with empty content the database is
\* unchanged and the analyzer is not called.  Rows appear in no other step of
\* these requests.
C15_PersistIffContent ==
    [][
        /\ \A t \in Threads :
            LET fr == req'[t]
                isReview == fr.op = "add_review"
                content == Strip(fr.form.content)
                title == IF isReview THEN StripName(fr.form.title) ELSE NoneTitle
                before == IF isReview THEN db.reviews ELSE db.replies
                after == IF isReview THEN db'.reviews ELSE db'.replies
            IN  /\ \* the request arrives
                   (/\ req[t].pc = "idle"
                    /\ fr.op \in {"add_review", "add_reply"}
                    /\ fr.method = "POST"
                    /\ isReview => fr.target \in 1..Len(db.projects)
                    /\ ~isReview => fr.target \in 1..Len(db.reviews)) =>
                        /\ db' = db
                        /\ plt' = plt
                        /\ IF content = <<>>
                           THEN fr.pc = "done" /\ ~fr.called /\ thr'[t] = thr[t]
                           ELSE /\ fr.pc = "analysis" /\ fr.called
                                /\ thr'[t].pc = "entry"
                                /\ thr'[t].content = Str(content)
                \* the request is answered
                /\ (/\ req[t].pc \notin {"idle", "done"}
                    /\ fr.pc = "done"
                    /\ fr.op \in {"add_review", "add_reply"}) =>
                        /\ content # <<>>
                        /\ fr.called
                        /\ Len(after) = Len(before) + 1
                        /\ SubSeq(after, 1, Len(before)) = before
                        /\ isReview => db'.replies = db.replies
                        /\ ~isReview => (db'.reviews = db.reviews /\ db'.projects = db.projects)
                        /\ Len(db'.projects) = Len(db.projects)
                        /\ LET rec == after[Len(after)]
                               call == SubmittedAnalysis[content, title, fr.form.faults]
                           IN  /\ rec.content = content
                               /\ rec.id = Len(after)
                               /\ IF call.raised = NoException /\ call.result.success
                                  THEN /\ AnalysisColumnsFrom(rec, call.result, isReview)
                                       /\ rec.analyzed_at.val <= rec.created_at
                                  ELSE AnalysisColumnsNull(rec, isReview)
        \* no other step stores or removes a row
        /\ (\A t \in Threads : req[t].pc \in {"idle", "done"} \/ req'[t].pc # "done") =>
                /\ db'.reviews = db.reviews
                /\ db'.replies = db.replies
    ]_vars

\* a review is stored with its columns set, after another request's commit
\* came between the read of analyzed_at and the review's own commit
C15_Witness ==
    \E t \in Threads :
        /\ req[t].pc = "done"
        /\ req[t].op = "add_review"
        /\ req[t].called
        /\ Len(db.reviews) = 1
        /\ db.reviews[1].sentiment_label = Some("Positive")
        /\ db.reviews[1].analyzed_at = Some(2)
        /\ db.reviews[1].created_at = 3

\* the reviews that carry a label
Labelled(rows) == SelectSeq(rows, LAMBDA r : ~r.sentiment_label.null)

DistTotal(dist) == dist.positive + dist.negative + dist.neutral

\* C16: every stored sentiment_label, of a review or of a reply, is null or
\* one of Positive, Negative, Neutral; so the loops of the dashboard and of
\* Project.sentiment_distribution never meet a missing key, and the three
\* counts sum to the number of reviews with a label among the reviews the
\* loop went through, which is at most the number of those reviews.
C16_LabelsAndDistribution ==
    /\ \A i \in 1..Len(db.reviews) :
            \/ db.reviews[i].sentiment_label.null
            \/ db.reviews[i].sentiment_label.val \in {"Positive", "Negative", "Neutral"}
    /\ \A i \in 1..Len(db.replies) :
            \/ db.replies[i].sentiment_label.null
            \/ db.replies[i].sentiment_label.val \in {"Positive", "Negative", "Neutral"}
    /\ LET all == sentiment_dist(db)
       IN  /\ ~all.raised
           /\ DistTotal(all.dist) = Len(Labelled(db.reviews))
    /\ \A p \in 1..Len(db.projects) :
            LET mine == SelectSeq(db.reviews, LAMBDA r : r.project_id = p)
                own == sentiment_distribution(db, p)
            IN  /\ ~own.raised
                /\ DistTotal(own.dist) = Len(Labelled(mine))
                /\ Len(Labelled(mine)) <= Len(mine)
    /\ \A t \in Threads :
        LET fr == req[t]
            mine == SelectSeq(db.reviews, LAMBDA r : r.project_id = fr.target)
            rows == IF fr.op = "index" THEN db.reviews ELSE mine
        IN  (fr.pc = "done" /\ fr.op \in {"index", "sentiment_distribution"}) =>
                /\ fr.status = 200
                /\ fr.stats.all_reviews <= Len(rows)
                /\ DistTotal(fr.stats.sentiment_distribution)
                        = Len(Labelled(SubSeq(rows, 1, fr.stats.all_reviews)))
                /\ DistTotal(fr.stats.sentiment_distribution) <= fr.stats.all_reviews

\* the dashboard counted one labelled review among two, the second of which
\* was stored after the dashboard's count of the reviews
C16_Witness ==
    \E t \in Threads :
        /\ req[t].pc = "done"
        /\ req[t].op = "index"
        /\ req[t].status = 200
        /\ req[t].stats.total_reviews = 1
        /\ req[t].stats.all_reviews = 2
        /\ req[t].stats.sentiment_distribution = [positive |-> 1, negative |-> 0, neutral |-> 0]
        /\ db.reviews[2].sentiment_label.null

====
